---- MODULE Spec2Model ----
(***************************************************************************)
(* A model of dashboard.py: the Dash application that loads a spreadsheet  *)
(* of PAJ records, keeps it in the 'stored-data' store as a JSON string,   *)
(* filters it by Matéria / Ofício / Usuário / date range, aggregates the   *)
(* filtered view into charts and a table, and exports the view as a PDF.   *)
(*                                                                         *)
(* Values of the pandas world are modelled as follows.                     *)
(*   - a Timestamp is a tuple <<year, month, day, hour>>; NaT is the tuple *)
(*     of zeros;                                                           *)
(*   - a text is a sequence of character codes (ASCII), so that Python's   *)
(*     string comparison is the lexicographic comparison of the codes;     *)
(*   - a categorical cell is a string, the missing value being NaN;        *)
(*   - a DataFrame is a sequence of rows (records), each with its index    *)
(*     label idx;                                                          *)
(*   - Python's None is a record with some = FALSE.                        *)
(***************************************************************************)
EXTENDS Integers, Sequences, FiniteSets, TLC

VARIABLES
    stored,      \* dcc.Store 'stored-data'.data: None or the JSON of the Record Set
    status,      \* 'output-data-upload-status'.children
    materias,    \* 'filtro-materia'.value
    oficios,     \* 'filtro-oficio'.value
    usuarios,    \* 'filtro-usuario'.value
    start_date,  \* 'filtro-data'.start_date
    end_date,    \* 'filtro-data'.end_date
    top_n,       \* 'top-n-usuarios'.value
    options,     \* what update_filter_options last returned
    dashboard,   \* what update_dashboard last returned
    download,    \* what generate_pdf returned for the click being served
    loaded,      \* the file most recently handed to the Loader, and by which path
    events       \* the number of interactions so far in a bounded session

vars == <<stored, status, materias, oficios, usuarios, start_date, end_date,
          top_n, options, dashboard, download, loaded, events>>

-----------------------------------------------------------------------------
(* Bounds of the model *)

\* Rows of an uploaded or preloaded spreadsheet in the loader specification.
MaxRows == 2

\* Values a user selects at once in one dropdown.
MaxSelected == 2

\* Interactions (uploads, selections, clicks) of a dashboard session.
MaxEvents == 3

\* The users of the largest ranking sheet, and the records a ranking sheet
\* has beyond one per user.
MaxUsers == 11
MaxExtra == 1

-----------------------------------------------------------------------------
(* Generic helpers *)

RECURSIVE SeqSum(_)
SeqSum(s) == IF s = <<>> THEN 0 ELSE Head(s) + SeqSum(Tail(s))

Range(s) == {s[i] : i \in 1..Len(s)}

\* All sequences over S of length at most n.
SeqsUpTo(S, n) == UNION {[1..k -> S] : k \in 0..n}

\* Python's str < str : lexicographic order of the character codes.
RECURSIVE TextLess(_, _)
TextLess(a, b) ==
    IF b = <<>> THEN FALSE
    ELSE IF a = <<>> THEN TRUE
    ELSE IF Head(a) # Head(b) THEN Head(a) < Head(b)
    ELSE TextLess(Tail(a), Tail(b))

\* Python's `sub in text` for sequences of characters.
Contains(text, sub) ==
    \E i \in 0..(Len(text) - Len(sub)) :
        \A j \in 1..Len(sub) : text[i + j] = sub[j]

\* Python's None and a present value.
None == [some |-> FALSE, val |-> {}]
NoneText == [some |-> FALSE, val |-> <<>>]
Some(v) == [some |-> TRUE, val |-> v]

-----------------------------------------------------------------------------
(* Dates *)

NaT == <<0, 0, 0, 0>>
NaN == "NaN"

IsLeap(y) == (y % 4 = 0 /\ y % 100 # 0) \/ y % 400 = 0

DaysIn(y, m) ==
    IF m = 2 THEN (IF IsLeap(y) THEN 29 ELSE 28)
    ELSE IF m \in {4, 6, 9, 11} THEN 30 ELSE 31

ValidDate(y, m, d) == m \in 1..12 /\ d \in 1..DaysIn(y, m)

\* A Timestamp as a number that grows with time (pandas compares the
\* nanoseconds since the epoch).
TsNum(t) == ((t[1] * 12 + (t[2] - 1)) * 31 + (t[3] - 1)) * 24 + t[4]

Digit(n) == 48 + n
Digits2(n) == <<Digit(n \div 10), Digit(n % 10)>>
Digits4(n) == <<Digit(n \div 1000), Digit((n \div 100) % 10),
                Digit((n \div 10) % 10), Digit(n % 10)>>

\* The number a text of digits denotes.
RECURSIVE NumOf(_)
NumOf(txt) ==
    IF txt = <<>> THEN 0
    ELSE NumOf(SubSeq(txt, 1, Len(txt) - 1)) * 10 + (txt[Len(txt)] - 48)

\* str(Period('M')): 'YYYY-MM'.
PeriodText(t) == Digits4(t[1]) \o <<45>> \o Digits2(t[2])

\* Timestamp.isoformat as to_json(date_format='iso') writes it:
\* 'YYYY-MM-DDTHH:00:00.000' (the model's Timestamps are whole hours).
IsoText(t) ==
    Digits4(t[1]) \o <<45>> \o Digits2(t[2]) \o <<45>> \o Digits2(t[3])
        \o <<84>> \o Digits2(t[4]) \o <<58, 48, 48, 58, 48, 48, 46, 48, 48, 48>>

IsDigits(txt) == \A i \in 1..Len(txt) : txt[i] \in 48..57

\* pd.to_datetime(text, errors='coerce') for the two layouts the model's texts
\* have, 'YYYY-MM-DD' and the ISO layout above; NaT for anything else and for
\* a day that is not in the calendar.
ParseDateText(txt) ==
    IF /\ Len(txt) \in {10, 23}
       /\ txt[5] = 45 /\ txt[8] = 45
       /\ IsDigits(SubSeq(txt, 1, 4)) /\ IsDigits(SubSeq(txt, 6, 7))
       /\ IsDigits(SubSeq(txt, 9, 10))
       /\ (Len(txt) = 23 => txt[11] = 84 /\ IsDigits(SubSeq(txt, 12, 13)))
    THEN LET y == NumOf(SubSeq(txt, 1, 4))
             m == NumOf(SubSeq(txt, 6, 7))
             d == NumOf(SubSeq(txt, 9, 10))
             h == IF Len(txt) = 23 THEN NumOf(SubSeq(txt, 12, 13)) ELSE 0
         IN IF ValidDate(y, m, d) /\ h \in 0..23 THEN <<y, m, d, h>> ELSE NaT
    ELSE NaT

\* A spreadsheet cell of the date column: an Excel datetime, a text, or blank.
DatetimeCell(y, m, d, h) == [kind |-> "datetime", ts |-> <<y, m, d, h>>, text |-> <<>>]
TextCell(txt) == [kind |-> "text", ts |-> NaT, text |-> txt]
BlankCell == [kind |-> "blank", ts |-> NaT, text |-> <<>>]

\* pd.to_datetime(cell, errors='coerce')
ToDatetimeCoerce(cell) ==
    IF cell.kind = "datetime" THEN cell.ts
    ELSE IF cell.kind = "text" THEN ParseDateText(cell.text)
    ELSE NaT

-----------------------------------------------------------------------------
(* Constants of the program *)

COLUMN_MAPPING(col) ==
    CASE col = "Oficio" -> "Ofício"
      [] col = "Data da instauração" -> "Data da Instauração"
      [] col = "Materia" -> "Matéria"
      [] OTHER -> col

REQUIRED_COLUMNS ==
    <<"PAJ", "Unidade", "Assistido", "Ofício", "Pretensão",
      "Data da Instauração", "Matéria", "Atribuição", "Defensor", "Usuário">>

-----------------------------------------------------------------------------
(* Data Loader *)

\* A spreadsheet file: its name, whether pd.read_excel can read its bytes,
\* its header and its rows.  A row holds the cells the program reads:
\* [Materia, Oficio, Usuario, Data]; the other columns matter only by their
\* presence in the header.

\* pd.read_excel succeeds on the bytes of an Excel workbook only.
ReadExcelOk(file) == file.content = "excel"

\* df.rename(columns=COLUMN_MAPPING)
RenamedColumns(file) == {COLUMN_MAPPING(c) : c \in file.columns}

\* [col for col in REQUIRED_COLUMNS if col not in df.columns]
MissingIn(cols) ==
    LET Absent(col) == col \notin cols
    IN SelectSeq(REQUIRED_COLUMNS, Absent)
MissingCols(file) == MissingIn(RenamedColumns(file))

\* Lines 45 and 76: the date column parsed with errors='coerce'.  A row keeps
\* the index label read_excel gave it (its 0-based position).
ParseDates(rows) ==
    [i \in 1..Len(rows) |->
        [idx |-> i - 1,
         Materia |-> rows[i].Materia,
         Oficio |-> rows[i].Oficio,
         Usuario |-> rows[i].Usuario,
         Data |-> ToDatetimeCoerce(rows[i].Data)]]

\* Lines 46 and 77: df.dropna(subset=[DATE_COLUMN]).
NotNaT(r) == r.Data # NaT
KeepNaT(df) == df
DropNaT(df) == SelectSeq(df, NotNaT)

\* Lines 49-52 and 78-81: Ano, Mês and AnoMês derived from the date.
Derived(r) ==
    [idx |-> r.idx, Materia |-> r.Materia, Oficio |-> r.Oficio,
     Usuario |-> r.Usuario, Data |-> r.Data,
     Ano |-> r.Data[1], Mes |-> r.Data[2], AnoMes |-> PeriodText(r.Data)]
AddDerived(df) == [i \in 1..Len(df) |-> Derived(df[i])]

\* Lines 45-52 (and 76-81) together.
CleanFrame(rows) == AddDerived(DropNaT(ParseDates(rows)))

\* pd.DataFrame(columns=REQUIRED_COLUMNS + ['Ano', 'Mês', 'AnoMês'])
EmptyFrame == <<>>

\* df.empty
IsEmpty(df) == Len(df) = 0

\* load_data(file_path): the cleaned frame, or an empty frame when the file is
\* absent (FileNotFoundError), lacks a required column (ValueError) or cannot
\* be read (Exception).  path = [exists, file].
load_data(path) ==
    IF ~path.exists THEN EmptyFrame
    ELSE IF ~ReadExcelOk(path.file) THEN EmptyFrame
    ELSE IF MissingCols(path.file) # <<>> THEN EmptyFrame
    ELSE CleanFrame(path.file.rows)

\* parse_contents(contents, filename): the cleaned frame, or None when the
\* name does not contain 'xls' or anything raises inside the try.
NoneFrame == [some |-> FALSE, val |-> <<>>]

parse_contents(file) ==
    IF Contains(file.filename, <<"x", "l", "s">>)
    THEN IF ~ReadExcelOk(file) THEN NoneFrame
         ELSE IF MissingCols(file) # <<>> THEN NoneFrame
         ELSE Some(CleanFrame(file.rows))
    ELSE NoneFrame
-----------------------------------------------------------------------------
(* The store: the Record Set as a JSON string *)

\* df.to_json(date_format='iso', orient='split'): the rows with their index
\* labels, a Timestamp written as ISO text and NaN written as null.
JsonCell(v) == IF v = NaN THEN "null" ELSE v

JsonRow(r) ==
    [idx |-> r.idx, Materia |-> JsonCell(r.Materia), Oficio |-> JsonCell(r.Oficio),
     Usuario |-> JsonCell(r.Usuario), Data |-> IsoText(r.Data),
     Ano |-> r.Ano, Mes |-> r.Mes, AnoMes |-> r.AnoMes]

to_json(df) == [i \in 1..Len(df) |-> JsonRow(df[i])]

\* pd.read_json(jsonified_data, orient='split') followed by
\* df[DATE_COLUMN] = pd.to_datetime(df[DATE_COLUMN]): null read back as a
\* missing value, the ISO text parsed back into a Timestamp.
FrameCell(v) == IF v = "null" THEN NaN ELSE v

FrameRow(j) ==
    [idx |-> j.idx, Materia |-> FrameCell(j.Materia), Oficio |-> FrameCell(j.Oficio),
     Usuario |-> FrameCell(j.Usuario), Data |-> ParseDateText(j.Data),
     Ano |-> j.Ano, Mes |-> j.Mes, AnoMes |-> j.AnoMes]

read_json(json) == [i \in 1..Len(json) |-> FrameRow(json[i])]

NoneStore == [some |-> FALSE, val |-> <<>>]

-----------------------------------------------------------------------------
(* pandas aggregations *)

\* The distinct values of a sequence in order of first appearance.
RECURSIVE FirstSeen(_)
FirstSeen(vals) ==
    IF vals = <<>> THEN <<>>
    ELSE LET init == FirstSeen(SubSeq(vals, 1, Len(vals) - 1))
             last == vals[Len(vals)]
         IN IF last \in Range(init) THEN init ELSE Append(init, last)

CountOf(vals, v) == Cardinality({i \in 1..Len(vals) : vals[i] = v})

\* A stable sort of [key, n] entries by descending n (entries with the same n
\* keep their order).
RECURSIVE SortByCountDesc(_)
SortByCountDesc(es) ==
    IF es = <<>> THEN <<>>
    ELSE LET e == es[Len(es)]
             init == SortByCountDesc(SubSeq(es, 1, Len(es) - 1))
             Before(x) == x.n >= e.n
             After(x) == x.n < e.n
         IN SelectSeq(init, Before) \o <<e>> \o SelectSeq(init, After)

\* Series.value_counts(): one entry per distinct value, missing values left
\* out (dropna=True), most frequent first.
value_counts(vals) ==
    LET Present(v) == v # NaN
        keys == FirstSeen(SelectSeq(vals, Present))
    IN SortByCountDesc([i \in 1..Len(keys) |-> [key |-> keys[i], n |-> CountOf(vals, keys[i])]])

\* nlargest keeping the n entries with the smallest counts.
nlargest_tail(counts, n) ==
    LET sorted == SortByCountDesc(counts)
    IN SubSeq(sorted, IF n < Len(sorted) THEN Len(sorted) - n + 1 ELSE 1, Len(sorted))

\* Series.nlargest(n) (keep='first'): the n entries with the largest counts.
nlargest(counts, n) ==
    LET sorted == SortByCountDesc(counts)
    IN SubSeq(sorted, 1, IF n < Len(sorted) THEN n ELSE Len(sorted))

\* A stable sort of [key, n] entries by ascending text key.
RECURSIVE SortByKey(_)
SortByKey(es) ==
    IF es = <<>> THEN <<>>
    ELSE LET e == es[Len(es)]
             init == SortByKey(SubSeq(es, 1, Len(es) - 1))
             Before(x) == ~TextLess(e.key, x.key)
             After(x) == TextLess(e.key, x.key)
         IN SelectSeq(init, Before) \o <<e>> \o SelectSeq(init, After)

\* dff.groupby('AnoMês').size().reset_index(name='Contagem') followed by
\* sort_values('AnoMês'): one entry per key, keys ascending as text.
groupby_size(keys) ==
    LET uniq == FirstSeen(keys)
    IN SortByKey(SortByKey([i \in 1..Len(uniq) |-> [key |-> uniq[i], n |-> CountOf(keys, uniq[i])]]))

Column(df, col) == [i \in 1..Len(df) |-> df[i][col]]
-----------------------------------------------------------------------------
(* Callback update_output *)

\* html.Div(..., className=...) of the status line; "" before any upload.
NoStatus == [className |-> "", text |-> ""]
SuccessStatus == [className |-> "text-success", text |-> "carregado com sucesso"]
FailureStatus == [className |-> "text-danger", text |-> "Falha ao carregar o arquivo"]

\* update_output with the store cleared when the file cannot be loaded.
update_output_wipes(file) ==
    LET df_new == parse_contents(file)
    IN IF df_new.some /\ ~IsEmpty(df_new.val)
       THEN [no_update |-> FALSE, data |-> Some(to_json(df_new.val)), status |-> SuccessStatus]
       ELSE [no_update |-> FALSE, data |-> NoneStore, status |-> FailureStatus]

\* update_output(contents, filename) for contents that are not None: what it
\* returns for ('stored-data'.data, status); no_update leaves the store as
\* it is.
\* update_output without the test "not df_new.empty" of line 302.
update_output_stores_empty(file) ==
    LET df_new == parse_contents(file)
    IN IF df_new.some
       THEN [no_update |-> FALSE, data |-> Some(to_json(df_new.val)), status |-> SuccessStatus]
       ELSE [no_update |-> TRUE, data |-> NoneStore, status |-> FailureStatus]

update_output(file) ==
    LET df_new == parse_contents(file)
    IN IF df_new.some /\ ~IsEmpty(df_new.val)
       THEN [no_update |-> FALSE, data |-> Some(to_json(df_new.val)), status |-> SuccessStatus]
       ELSE [no_update |-> TRUE, data |-> NoneStore, status |-> FailureStatus]

-----------------------------------------------------------------------------
(* Callback update_filter_options *)

NoOptions ==
    [materia |-> {}, oficio |-> {}, usuario |-> {},
     min_date |-> <<0, 0, 0>>, max_date |-> <<0, 0, 0>>]

\* sorted(column.unique()) compares the values with <, which raises TypeError
\* when a missing value stands among strings.
SortedRaises(vals) == NaN \in Range(vals) /\ Range(vals) # {NaN}

MinTs(df) == CHOOSE t \in {r.Data : r \in Range(df)} :
                 \A u \in {r.Data : r \in Range(df)} : TsNum(t) <= TsNum(u)
MaxTs(df) == CHOOSE t \in {r.Data : r \in Range(df)} :
                 \A u \in {r.Data : r \in Range(df)} : TsNum(u) <= TsNum(t)

\* Timestamp.date()
DateOf(t) == <<t[1], t[2], t[3]>>

\* update_filter_options(jsonified_data): the options of the three dropdowns
\* (as sets: the order sorted() gives them is not modelled) and the first and
\* last selectable day, or raised when sorted() raises.
update_filter_options(jsonified_data) ==
    IF ~jsonified_data.some THEN [raised |-> FALSE, out |-> NoOptions]
    ELSE LET df == read_json(jsonified_data.val)
         IN IF IsEmpty(df) THEN [raised |-> FALSE, out |-> NoOptions]
            ELSE IF \/ SortedRaises(Column(df, "Materia"))
                    \/ SortedRaises(Column(df, "Oficio"))
                    \/ SortedRaises(Column(df, "Usuario"))
                 THEN [raised |-> TRUE, out |-> NoOptions]
                 ELSE [raised |-> FALSE,
                       out |-> [materia |-> Range(Column(df, "Materia")),
                                oficio |-> Range(Column(df, "Oficio")),
                                usuario |-> Range(Column(df, "Usuario")),
                                min_date |-> DateOf(MinTs(df)),
                                max_date |-> DateOf(MaxTs(df))]]

-----------------------------------------------------------------------------
(* Callback update_dashboard *)

\* Python's truth value of a dropdown value (None or a list) and of a date
\* picker value (None or a text).
TruthyList(sel) == sel.some /\ sel.val # {}
TruthyText(sel) == sel.some /\ sel.val # <<>>

\* Lines 383-394: the filters of update_dashboard, applied one after another.
FilterDashboard(df, materias_selecionadas, oficios_selecionados, usuarios_selecionados, start, end) ==
    LET InMateria(r) == r.Materia \in materias_selecionadas.val
        InOficio(r) == r.Oficio \in oficios_selecionados.val
        InUsuario(r) == r.Usuario \in usuarios_selecionados.val
        start_ts == TsNum(ParseDateText(start.val))
        end_ts == TsNum(ParseDateText(end.val))
        FromStart(r) == TsNum(r.Data) >= start_ts
        ToEnd(r) == TsNum(r.Data) <= end_ts
        Between(r) == FromStart(r) /\ ToEnd(r)
        d1 == IF TruthyList(materias_selecionadas) THEN SelectSeq(df, InMateria) ELSE df
        d2 == IF TruthyList(oficios_selecionados) THEN SelectSeq(d1, InOficio) ELSE d1
        d3 == IF TruthyList(usuarios_selecionados) THEN SelectSeq(d2, InUsuario) ELSE d2
    IN IF TruthyText(start) /\ TruthyText(end) THEN SelectSeq(d3, Between)
       ELSE IF TruthyText(start) THEN SelectSeq(d3, FromStart)
       ELSE IF TruthyText(end) THEN SelectSeq(d3, ToEnd)
       ELSE d3

\* go.Figure() with a single annotation, and a figure drawn from counts.
\* top is the N of the title "TOP N Usuários" (0 for the other figures).
EmptyFig(text) == [annotation |-> text, top |-> 0, data |-> <<>>]
Fig(top, data) == [annotation |-> "", top |-> top, data |-> data]

\* What update_dashboard returns when there is nothing to show.
Placeholder(fig_text, table_text) ==
    [total |-> [card |-> FALSE, n |-> 0],
     fig_materia |-> EmptyFig(fig_text),
     fig_oficio |-> EmptyFig(fig_text),
     fig_usuarios |-> EmptyFig(fig_text),
     fig_evolucao |-> EmptyFig(fig_text),
     tabela |-> [text |-> table_text, rows |-> <<>>],
     dff |-> <<>>]

\* update_dashboard with the placeholders of lines 368-376 for an empty dff too.
update_dashboard_one_placeholder(jsonified_data, materias_selecionadas, oficios_selecionados, usuarios_selecionados, start, end, n) ==
    IF ~jsonified_data.some
    THEN Placeholder("Sem dados para exibir", "Nenhum dado disponível para a tabela.")
    ELSE IF IsEmpty(read_json(jsonified_data.val))
    THEN Placeholder("Sem dados para exibir", "Nenhum dado disponível para a tabela.")
    ELSE LET dff == FilterDashboard(read_json(jsonified_data.val), materias_selecionadas,
                                    oficios_selecionados, usuarios_selecionados, start, end)
         IN IF IsEmpty(dff)
            THEN Placeholder("Sem dados para exibir",
                             "Nenhum dado disponível para a tabela.")
            ELSE [total |-> [card |-> TRUE, n |-> Len(dff)],
                  fig_materia |-> Fig(0, value_counts(Column(dff, "Materia"))),
                  fig_oficio |-> Fig(0, value_counts(Column(dff, "Oficio"))),
                  fig_usuarios |-> Fig(n, nlargest(value_counts(Column(dff, "Usuario")), n)),
                  fig_evolucao |-> Fig(0, groupby_size(Column(dff, "AnoMes"))),
                  tabela |-> [text |-> "",
                              rows |-> nlargest(value_counts(Column(dff, "Usuario")), 10)],
                  dff |-> dff]

\* update_dashboard with the table cut at top_n instead of 10.
update_dashboard_table_top_n(jsonified_data, materias_selecionadas, oficios_selecionados, usuarios_selecionados, start, end, n) ==
    IF ~jsonified_data.some
    THEN Placeholder("Sem dados para exibir", "Nenhum dado disponível para a tabela.")
    ELSE IF IsEmpty(read_json(jsonified_data.val))
    THEN Placeholder("Sem dados para exibir", "Nenhum dado disponível para a tabela.")
    ELSE LET dff == FilterDashboard(read_json(jsonified_data.val), materias_selecionadas,
                                    oficios_selecionados, usuarios_selecionados, start, end)
         IN IF IsEmpty(dff)
            THEN Placeholder("Nenhum dado corresponde aos filtros",
                             "Nenhum dado corresponde aos filtros.")
            ELSE [total |-> [card |-> TRUE, n |-> Len(dff)],
                  fig_materia |-> Fig(0, value_counts(Column(dff, "Materia"))),
                  fig_oficio |-> Fig(0, value_counts(Column(dff, "Oficio"))),
                  fig_usuarios |-> Fig(n, nlargest(value_counts(Column(dff, "Usuario")), n)),
                  fig_evolucao |-> Fig(0, groupby_size(Column(dff, "AnoMes"))),
                  tabela |-> [text |-> "",
                              rows |-> nlargest(value_counts(Column(dff, "Usuario")), n)],
                  dff |-> dff]

\* update_dashboard(...): the six outputs; dff is the filtered frame they were
\* computed from (a local of the callback, kept for the properties).
update_dashboard(jsonified_data, materias_selecionadas, oficios_selecionados, usuarios_selecionados, start, end, n) ==
    IF ~jsonified_data.some
    THEN Placeholder("Sem dados para exibir", "Nenhum dado disponível para a tabela.")
    ELSE IF IsEmpty(read_json(jsonified_data.val))
    THEN Placeholder("Sem dados para exibir", "Nenhum dado disponível para a tabela.")
    ELSE LET dff == FilterDashboard(read_json(jsonified_data.val), materias_selecionadas,
                                    oficios_selecionados, usuarios_selecionados, start, end)
         IN IF IsEmpty(dff)
            THEN Placeholder("Nenhum dado corresponde aos filtros",
                             "Nenhum dado corresponde aos filtros.")
            ELSE [total |-> [card |-> TRUE, n |-> Len(dff)],
                  fig_materia |-> Fig(0, value_counts(Column(dff, "Materia"))),
                  fig_oficio |-> Fig(0, value_counts(Column(dff, "Oficio"))),
                  fig_usuarios |-> Fig(n, nlargest(value_counts(Column(dff, "Usuario")), n)),
                  fig_evolucao |-> Fig(0, groupby_size(Column(dff, "AnoMes"))),
                  tabela |-> [text |-> "",
                              rows |-> nlargest(value_counts(Column(dff, "Usuario")), 10)],
                  dff |-> dff]
-----------------------------------------------------------------------------
(* Report Exporter *)

FigNames == {"materia", "oficio", "usuarios", "evolucao"}

\* What the environment does to one export: the figures whose fig.to_image
\* raises, whether LOGO_PATH can be opened, whether write_pdf succeeds.
RenderEnv(img_fail, logo_ok, pdf_ok) ==
    [img_fail |-> img_fail, logo_ok |-> logo_ok, pdf_ok |-> pdf_ok]
RenderEnvs ==
    {RenderEnv({}, TRUE, TRUE), RenderEnv({"usuarios"}, TRUE, TRUE),
     RenderEnv(FigNames, TRUE, TRUE), RenderEnv({}, FALSE, TRUE),
     RenderEnv({}, TRUE, FALSE)}

\* One chart of the report: the <img> of the figure, or '<p>Erro.</p>' when
\* its image could not be made.
Chart(fig, failed) ==
    IF failed THEN [img |-> FALSE, fig |-> EmptyFig("Erro.")]
    ELSE [img |-> TRUE, fig |-> fig]
NoChart == [img |-> FALSE, fig |-> EmptyFig("")]

NoBundle ==
    [total_pajs |-> 0, materia_counts |-> <<>>, oficio_counts |-> <<>>,
     user_counts |-> <<>>, evolucao |-> <<>>, top10_users_stats |-> <<>>]

\* Line 92: the report of an empty view.
NoDataHtml ==
    [notice |-> "Nenhum dado corresponde aos filtros selecionados.",
     total |-> 0, top_n |-> 0,
     materia |-> NoChart, oficio |-> NoChart, usuarios |-> NoChart, evolucao |-> NoChart,
     has_table |-> FALSE, tabela |-> <<>>,
     bundle |-> NoBundle]

\* generate_report_html_base64 without the notice of line 92.
generate_report_html_base64_silent(dff, n, env) ==
    IF IsEmpty(dff) THEN [raised |-> FALSE, html |-> [NoDataHtml EXCEPT !.notice = ""]]
    ELSE LET total_pajs == Len(dff)
             materia_counts == value_counts(Column(dff, "Materia"))
             oficio_counts == value_counts(Column(dff, "Oficio"))
             user_counts == nlargest(value_counts(Column(dff, "Usuario")), n)
             evolucao == groupby_size(Column(dff, "AnoMes"))
             top10_users_stats == nlargest(value_counts(Column(dff, "Usuario")), 10)
         IN IF ~env.logo_ok THEN [raised |-> TRUE, html |-> NoDataHtml]
            ELSE [raised |-> FALSE,
                  html |->
                    [notice |-> "",
                     total |-> total_pajs, top_n |-> n,
                     materia |-> Chart(Fig(0, materia_counts), "materia" \in env.img_fail),
                     oficio |-> Chart(Fig(0, oficio_counts), "oficio" \in env.img_fail),
                     usuarios |-> Chart(Fig(n, user_counts), "usuarios" \in env.img_fail),
                     evolucao |-> Chart(Fig(0, evolucao), "evolucao" \in env.img_fail),
                     has_table |-> TRUE, tabela |-> top10_users_stats,
                     bundle |-> [total_pajs |-> total_pajs,
                                 materia_counts |-> materia_counts,
                                 oficio_counts |-> oficio_counts,
                                 user_counts |-> user_counts,
                                 evolucao |-> evolucao,
                                 top10_users_stats |-> top10_users_stats]]]

\* generate_report_html_base64(dff, top_n) under env: the HTML (its notice,
\* total, four charts and table; bundle keeps the aggregates it computed), or
\* raised when the logo cannot be opened (line 130).
generate_report_html_base64(dff, n, env) ==
    IF IsEmpty(dff) THEN [raised |-> FALSE, html |-> NoDataHtml]
    ELSE LET total_pajs == Len(dff)
             materia_counts == value_counts(Column(dff, "Materia"))
             oficio_counts == value_counts(Column(dff, "Oficio"))
             user_counts == nlargest(value_counts(Column(dff, "Usuario")), n)
             evolucao == groupby_size(Column(dff, "AnoMes"))
             top10_users_stats == nlargest(value_counts(Column(dff, "Usuario")), 10)
         IN IF ~env.logo_ok THEN [raised |-> TRUE, html |-> NoDataHtml]
            ELSE [raised |-> FALSE,
                  html |->
                    [notice |-> "",
                     total |-> total_pajs, top_n |-> n,
                     materia |-> Chart(Fig(0, materia_counts), "materia" \in env.img_fail),
                     oficio |-> Chart(Fig(0, oficio_counts), "oficio" \in env.img_fail),
                     usuarios |-> Chart(Fig(n, user_counts), "usuarios" \in env.img_fail),
                     evolucao |-> Chart(Fig(0, evolucao), "evolucao" \in env.img_fail),
                     has_table |-> TRUE, tabela |-> top10_users_stats,
                     bundle |-> [total_pajs |-> total_pajs,
                                 materia_counts |-> materia_counts,
                                 oficio_counts |-> oficio_counts,
                                 user_counts |-> user_counts,
                                 evolucao |-> evolucao,
                                 top10_users_stats |-> top10_users_stats]]]

\* The filters of generate_pdf with an exclusive end of the range.
FilterPdf_exclusive(df, materias_selecionadas, oficios_selecionados, usuarios_selecionados, start, end) ==
    LET InMateria(r) == r.Materia \in materias_selecionadas.val
        InOficio(r) == r.Oficio \in oficios_selecionados.val
        InUsuario(r) == r.Usuario \in usuarios_selecionados.val
        start_ts == TsNum(ParseDateText(start.val))
        end_ts == TsNum(ParseDateText(end.val))
        FromStart(r) == TsNum(r.Data) >= start_ts
        ToEnd(r) == TsNum(r.Data) < end_ts
        Between(r) == FromStart(r) /\ ToEnd(r)
        d1 == IF TruthyList(materias_selecionadas) THEN SelectSeq(df, InMateria) ELSE df
        d2 == IF TruthyList(oficios_selecionados) THEN SelectSeq(d1, InOficio) ELSE d1
        d3 == IF TruthyList(usuarios_selecionados) THEN SelectSeq(d2, InUsuario) ELSE d2
    IN IF TruthyText(start) /\ TruthyText(end) THEN SelectSeq(d3, Between)
       ELSE IF TruthyText(start) THEN SelectSeq(d3, FromStart)
       ELSE IF TruthyText(end) THEN SelectSeq(d3, ToEnd)
       ELSE d3

\* Lines 486-497: the filters of generate_pdf.
FilterPdf(df, materias_selecionadas, oficios_selecionados, usuarios_selecionados, start, end) ==
    LET InMateria(r) == r.Materia \in materias_selecionadas.val
        InOficio(r) == r.Oficio \in oficios_selecionados.val
        InUsuario(r) == r.Usuario \in usuarios_selecionados.val
        start_ts == TsNum(ParseDateText(start.val))
        end_ts == TsNum(ParseDateText(end.val))
        FromStart(r) == TsNum(r.Data) >= start_ts
        ToEnd(r) == TsNum(r.Data) <= end_ts
        Between(r) == FromStart(r) /\ ToEnd(r)
        d1 == IF TruthyList(materias_selecionadas) THEN SelectSeq(df, InMateria) ELSE df
        d2 == IF TruthyList(oficios_selecionados) THEN SelectSeq(d1, InOficio) ELSE d1
        d3 == IF TruthyList(usuarios_selecionados) THEN SelectSeq(d2, InUsuario) ELSE d2
    IN IF TruthyText(start) /\ TruthyText(end) THEN SelectSeq(d3, Between)
       ELSE IF TruthyText(start) THEN SelectSeq(d3, FromStart)
       ELSE IF TruthyText(end) THEN SelectSeq(d3, ToEnd)
       ELSE d3

\* dash.no_update for 'download-pdf'.data.
NoFile == [some |-> FALSE, html |-> NoDataHtml, dff |-> <<>>]

\* generate_pdf without its try/except.
generate_pdf_uncaught(jsonified_data, materias_selecionadas, oficios_selecionados, usuarios_selecionados, start, end, n, env) ==
    IF ~jsonified_data.some THEN [no_update |-> TRUE, raised |-> FALSE, data |-> NoFile]
    ELSE IF IsEmpty(read_json(jsonified_data.val))
    THEN [no_update |-> TRUE, raised |-> FALSE, data |-> NoFile]
    ELSE LET dff == FilterPdf(read_json(jsonified_data.val), materias_selecionadas,
                              oficios_selecionados, usuarios_selecionados, start, end)
             report == generate_report_html_base64(dff, n, env)
         IN IF report.raised \/ ~env.pdf_ok
            THEN [no_update |-> TRUE, raised |-> TRUE, data |-> NoFile]
            ELSE [no_update |-> FALSE, raised |-> FALSE,
                  data |-> [some |-> TRUE, html |-> report.html, dff |-> dff]]

\* generate_pdf(n_clicks, ...) for a click (n_clicks >= 1) under env: the
\* download (the PDF of the report's HTML; dff is the filtered frame it was
\* made from), or no_update when there is no Record Set or anything raises
\* inside the try.
generate_pdf(jsonified_data, materias_selecionadas, oficios_selecionados, usuarios_selecionados, start, end, n, env) ==
    IF ~jsonified_data.some THEN [no_update |-> TRUE, raised |-> FALSE, data |-> NoFile]
    ELSE IF IsEmpty(read_json(jsonified_data.val))
    THEN [no_update |-> TRUE, raised |-> FALSE, data |-> NoFile]
    ELSE LET dff == FilterPdf(read_json(jsonified_data.val), materias_selecionadas,
                              oficios_selecionados, usuarios_selecionados, start, end)
             report == generate_report_html_base64(dff, n, env)
         IN IF report.raised \/ ~env.pdf_ok
            THEN [no_update |-> TRUE, raised |-> FALSE, data |-> NoFile]
            ELSE [no_update |-> FALSE, raised |-> FALSE,
                  data |-> [some |-> TRUE, html |-> report.html, dff |-> dff]]
-----------------------------------------------------------------------------
(* Inputs: spreadsheets *)

DayText(y, m, d) == Digits4(y) \o <<45>> \o Digits2(m) \o <<45>> \o Digits2(d)

Row(materia, oficio, usuario, data) ==
    [Materia |-> materia, Oficio |-> oficio, Usuario |-> usuario, Data |-> data]

\* Rows with a date at midnight, a date with a time of day, a text date, a
\* missing Matéria, a text that is no calendar day, and a blank date.
RowA == Row("Cível", "1º Ofício", "ana", DatetimeCell(2024, 1, 10, 0))
RowB == Row("Criminal", "2º Ofício", "bruno", DatetimeCell(2024, 2, 28, 10))
RowC == Row(NaN, "1º Ofício", "bruno", TextCell(DayText(2024, 2, 5)))
RowD == Row("Cível", "2º Ofício", "ana", TextCell(DayText(2024, 2, 30)))
RowE == Row("Criminal", "1º Ofício", "ana", BlankCell)

RawRows == {RowA, RowB, RowC, RowD, RowE}

CanonicalHeader == Range(REQUIRED_COLUMNS)
SynonymHeader ==
    (CanonicalHeader \ {"Ofício", "Data da Instauração", "Matéria"})
        \cup {"Oficio", "Data da instauração", "Materia"}

XlsxName == <<"p", "a", "j", ".", "x", "l", "s", "x">>
XlsName == <<"p", "a", "j", ".", "x", "l", "s">>
CsvName == <<"p", "a", "j", ".", "c", "s", "v">>
XlsCsvName == <<"x", "l", "s", ".", "c", "s", "v">>

Workbook(filename, columns, rows) ==
    [filename |-> filename, content |-> "excel", columns |-> columns, rows |-> rows]

\* The sheets of at most MaxRows rows, no row twice (a row is one PAJ).
Sheets ==
    {rows \in SeqsUpTo(RawRows, MaxRows) :
        \A i, j \in 1..Len(rows) : rows[i] = rows[j] => i = j}

\* Workbooks with every required column, under the canonical names or the
\* synonyms.
GoodFiles ==
    {Workbook(XlsxName, CanonicalHeader, rows) : rows \in Sheets}
        \cup {Workbook(XlsName, SynonymHeader, <<r>>) : r \in RawRows}
        \cup {Workbook(XlsCsvName, CanonicalHeader, <<RowB>>)}

\* Files that cannot be loaded: a workbook without the Matéria column, a
\* workbook under a name without 'xls', and bytes read_excel cannot read.
NoMateriaFile == Workbook(XlsxName, CanonicalHeader \ {"Matéria"}, <<RowA>>)
CsvFile == Workbook(CsvName, CanonicalHeader, <<RowA>>)
CorruptFile ==
    [filename |-> XlsName, content |-> "other", columns |-> {}, rows |-> <<>>]
BadFiles == {NoMateriaFile, CsvFile, CorruptFile}

Files == GoodFiles \cup BadFiles

\* INITIAL_DATA_PATH: no file there, or one of the files.
AbsentPath == [exists |-> FALSE, file |-> CorruptFile]
Paths == {AbsentPath} \cup {[exists |-> TRUE, file |-> f] : f \in Files}

\* The spreadsheets of the dashboard session.
RowF == Row("Cível", "1º Ofício", "bruno", TextCell(DayText(2024, 2, 5)))
SessionFiles ==
    {Workbook(XlsxName, CanonicalHeader, <<RowA, RowB>>),
     Workbook(XlsxName, CanonicalHeader, <<RowB>>),
     Workbook(XlsxName, CanonicalHeader, <<RowA, RowF, RowB>>)}
SessionPaths == {AbsentPath} \cup {[exists |-> TRUE, file |-> f] : f \in SessionFiles}

\* Days the user picks in the date range, and the top-N choices (line 251).
\* Sheets for the rankings: one record for each of the first k users, in
\* months that do not come in order (2024-01, 2024-02, 2024-02, then
\* 2023-12), followed by more records of the first or of the last user.
UserNames ==
    <<"u01", "u02", "u03", "u04", "u05", "u06", "u07", "u08", "u09", "u10",
      "u11", "u12", "u13">>
RankDate(k) ==
    IF k = 1 THEN DatetimeCell(2024, 1, 10, 0)
    ELSE IF k = 2 THEN DatetimeCell(2024, 2, 5, 0)
    ELSE IF k = 3 THEN DatetimeCell(2024, 2, 28, 0)
    ELSE DatetimeCell(2023, 12, k, 0)
RankRow(k) ==
    Row(IF k % 2 = 0 THEN "Cível" ELSE "Criminal", "1º Ofício", UserNames[k], RankDate(k))
RankSheet(k, extra) ==
    [i \in 1..k |-> RankRow(i)] \o [i \in 1..Len(extra) |-> RankRow(extra[i])]
RankFiles ==
    {Workbook(XlsxName, CanonicalHeader, RankSheet(k, extra)) :
        <<k, extra>> \in UNION {{k} \X SeqsUpTo({1, k}, MaxExtra) : k \in 1..MaxUsers}}
RankPaths == {[exists |-> TRUE, file |-> f] : f \in RankFiles}

PickDays == {<<2024, 1, 10>>, <<2024, 2, 1>>, <<2024, 2, 28>>}
TopNChoices == {10, 20, 30, 50}

-----------------------------------------------------------------------------
(* The application *)

\* No click on "Gerar PDF" since the last change.
NoDownload ==
    [clicked |-> FALSE, env |-> RenderEnv({}, TRUE, TRUE), raised |-> FALSE,
     some |-> FALSE, html |-> NoDataHtml, dff |-> <<>>]

\* What Dash does after 'stored-data' changed: update_filter_options and
\* update_dashboard run on the new store; a callback that raises leaves its
\* outputs as they were.
OptionsAfter(data, old) ==
    LET r == update_filter_options(data)
    IN IF r.raised THEN old ELSE r.out

\* Page load with the file found at INITIAL_DATA_PATH: line 168 and the
\* layout's store (line 174), then every callback runs once.
InitWith(path) ==
    LET df_inicial == load_data(path)
        data == IF ~IsEmpty(df_inicial) THEN Some(to_json(df_inicial)) ELSE NoneStore
    IN /\ stored = data
       /\ status = NoStatus
       /\ materias = None
       /\ oficios = None
       /\ usuarios = None
       /\ start_date = NoneText
       /\ end_date = NoneText
       /\ top_n = 10
       /\ options = OptionsAfter(data, NoOptions)
       /\ dashboard = update_dashboard(data, None, None, None, NoneText, NoneText, 10)
       /\ download = NoDownload
       /\ events = 0
       /\ loaded = [via |-> "load_data", exists |-> path.exists, file |-> path.file,
                    frame |-> Some(df_inicial)]

\* The user uploads file: update_output, then the callbacks that depend on
\* the store if it changed.
Upload(file) ==
    LET r == update_output(file)
        data == IF r.no_update THEN stored ELSE r.data
    IN /\ stored' = data
       /\ status' = r.status
       /\ options' = IF r.no_update THEN options ELSE OptionsAfter(data, options)
       /\ dashboard' = IF r.no_update THEN dashboard
                       ELSE update_dashboard(data, materias, oficios, usuarios,
                                             start_date, end_date, top_n)
       /\ download' = NoDownload
       /\ loaded' = [via |-> "parse_contents", exists |-> TRUE, file |-> file,
                     frame |-> parse_contents(file)]
       /\ UNCHANGED <<materias, oficios, usuarios, start_date, end_date, top_n>>

Selections(offered) ==
    {S \in SUBSET (offered \ {NaN}) : Cardinality(S) <= MaxSelected}

\* The user changes the selection of a dropdown; update_dashboard runs.
SelectMaterias ==
    \E S \in Selections(options.materia) :
        /\ materias' = Some(S)
        /\ dashboard' = update_dashboard(stored, Some(S), oficios, usuarios,
                                         start_date, end_date, top_n)
        /\ download' = NoDownload
        /\ UNCHANGED <<stored, status, oficios, usuarios, start_date, end_date,
                       top_n, options, loaded>>

SelectOficios ==
    \E S \in Selections(options.oficio) :
        /\ oficios' = Some(S)
        /\ dashboard' = update_dashboard(stored, materias, Some(S), usuarios,
                                         start_date, end_date, top_n)
        /\ download' = NoDownload
        /\ UNCHANGED <<stored, status, materias, usuarios, start_date, end_date,
                       top_n, options, loaded>>

SelectUsuarios ==
    \E S \in Selections(options.usuario) :
        /\ usuarios' = Some(S)
        /\ dashboard' = update_dashboard(stored, materias, oficios, Some(S),
                                         start_date, end_date, top_n)
        /\ download' = NoDownload
        /\ UNCHANGED <<stored, status, materias, oficios, start_date, end_date,
                       top_n, options, loaded>>

DayNum(d) == (d[1] * 12 + (d[2] - 1)) * 31 + (d[3] - 1)

\* The days the DatePickerRange lets the user pick: between min_date_allowed
\* and max_date_allowed.
Pickable ==
    {d \in PickDays : /\ DayNum(options.min_date) <= DayNum(d)
                      /\ DayNum(d) <= DayNum(options.max_date)}

PickText(d) == Some(DayText(d[1], d[2], d[3]))

\* The user picks or clears the start or the end of the range.
PickStart ==
    \E v \in {NoneText} \cup {PickText(d) : d \in Pickable} :
        /\ start_date' = v
        /\ dashboard' = update_dashboard(stored, materias, oficios, usuarios,
                                         v, end_date, top_n)
        /\ download' = NoDownload
        /\ UNCHANGED <<stored, status, materias, oficios, usuarios, end_date,
                       top_n, options, loaded>>

PickEnd ==
    \E v \in {NoneText} \cup {PickText(d) : d \in Pickable} :
        /\ end_date' = v
        /\ dashboard' = update_dashboard(stored, materias, oficios, usuarios,
                                         start_date, v, top_n)
        /\ download' = NoDownload
        /\ UNCHANGED <<stored, status, materias, oficios, usuarios, start_date,
                       top_n, options, loaded>>

SelectTopN ==
    \E n \in TopNChoices :
        /\ top_n' = n
        /\ dashboard' = update_dashboard(stored, materias, oficios, usuarios,
                                         start_date, end_date, n)
        /\ download' = NoDownload
        /\ UNCHANGED <<stored, status, materias, oficios, usuarios, start_date,
                       end_date, options, loaded>>

\* The user clicks "Gerar PDF": generate_pdf runs under env; nothing depends on
\* its output. download keeps the click, its env and what the callback did.
ExportPdf ==
    \E env \in RenderEnvs :
        LET r == generate_pdf(stored, materias, oficios, usuarios,
                              start_date, end_date, top_n, env)
        IN /\ download' = [clicked |-> TRUE, env |-> env, raised |-> r.raised,
                           some |-> ~r.no_update /\ r.data.some,
                           html |-> r.data.html, dff |-> r.data.dff]
           /\ UNCHANGED <<stored, status, materias, oficios, usuarios, start_date,
                          end_date, top_n, options, dashboard, loaded>>

UploadAny == \E file \in Files : Upload(file)
UploadSession == \E file \in SessionFiles : Upload(file)

\* The dashboard session: a small set of spreadsheets, every control, at most
\* MaxEvents interactions.
Init == \E path \in SessionPaths : InitWith(path)
Tick == events < MaxEvents /\ events' = events + 1
Next ==
    \/ Tick /\ UploadSession
    \/ Tick /\ SelectMaterias
    \/ Tick /\ SelectOficios
    \/ Tick /\ SelectUsuarios
    \/ Tick /\ PickStart
    \/ Tick /\ PickEnd
    \/ Tick /\ SelectTopN
    \/ Tick /\ ExportPdf
Spec == Init /\ [][Next]_vars

\* The ranking session: a ranking sheet loaded at page start, then the top-N
\* choice and the export.
InitView == \E path \in RankPaths : InitWith(path)
NextView ==
    \/ SelectTopN /\ UNCHANGED events
    \/ ExportPdf /\ UNCHANGED events
SpecView == InitView /\ [][NextView]_vars

\* The loader session: every spreadsheet, any number of uploads, the filters
\* left as the page loads them.
InitLoad == \E path \in Paths : InitWith(path)
NextLoad == UploadAny /\ UNCHANGED events
SpecLoad == InitLoad /\ [][NextLoad]_vars
-----------------------------------------------------------------------------
(* Properties of the Loader and of the store *)

\* The failures of a load as the specification names them: a required column
\* missing once the synonyms Oficio, Materia and 'Data da instauração' are
\* taken for their columns, a name that is no Excel name, bytes that are no
\* workbook.
HasColumn(file, col) ==
    \/ col \in file.columns
    \/ col = "Ofício" /\ "Oficio" \in file.columns
    \/ col = "Matéria" /\ "Materia" \in file.columns
    \/ col = "Data da Instauração" /\ "Data da instauração" \in file.columns
LacksRequiredColumn(file) ==
    \E i \in 1..Len(REQUIRED_COLUMNS) : ~HasColumn(file, REQUIRED_COLUMNS[i])
UnsupportedName(file) == ~Contains(file.filename, <<"x", "l", "s">>)
Unreadable(file) == file.content # "excel"
CannotBeLoaded(file) ==
    LacksRequiredColumn(file) \/ UnsupportedName(file) \/ Unreadable(file)

\* C1: an upload that fails because a required column is missing, the name is
\* not supported or the file cannot be read leaves the stored Record Set as it
\* was and shows the failure status, whatever uploads came before.
C1_FailedUploadKeepsStore ==
    [][(loaded'.via = "parse_contents" /\ CannotBeLoaded(loaded'.file))
          => (stored' = stored /\ status' = FailureStatus)]_vars

\* A failed upload has followed a successful load: a Record Set is stored and
\* the status shows the failure of a file that cannot be loaded.
C1_Witness ==
    /\ stored.some
    /\ loaded.via = "parse_contents"
    /\ CannotBeLoaded(loaded.file)
    /\ status = FailureStatus

\* The rows of a spreadsheet whose date can be parsed, by position.
ParseablePositions(rows) ==
    {i \in 1..Len(rows) : ToDatetimeCoerce(rows[i].Data) # NaT}
UnparseableCount(rows) ==
    Cardinality({i \in 1..Len(rows) : ToDatetimeCoerce(rows[i].Data) = NaT})

\* The Loader was handed a readable spreadsheet with every required column
\* (under a name update_output accepts, when it was uploaded).
LoadedSpreadsheet ==
    /\ loaded.exists
    /\ ~LacksRequiredColumn(loaded.file)
    /\ ~Unreadable(loaded.file)
    /\ loaded.via = "parse_contents" => ~UnsupportedName(loaded.file)

\* C4: a spreadsheet with every required column and N rows, M of them with a
\* date that cannot be parsed, loads as exactly N - M records, in the order of
\* the rows, none with a null date, by load_data and by parse_contents alike;
\* when records remain, they are what the store holds.
C4_RowsWithDatesKept ==
    LoadedSpreadsheet =>
        LET rows == loaded.file.rows
            df == loaded.frame.val
        IN /\ loaded.frame.some
           /\ Len(df) = Len(rows) - UnparseableCount(rows)
           /\ \A i \in 1..Len(df) :
                 /\ df[i].Data # NaT
                 /\ df[i].idx + 1 \in ParseablePositions(rows)
                 /\ df[i].Materia = rows[df[i].idx + 1].Materia
                 /\ df[i].Oficio = rows[df[i].idx + 1].Oficio
                 /\ df[i].Usuario = rows[df[i].idx + 1].Usuario
                 /\ df[i].Data = ToDatetimeCoerce(rows[df[i].idx + 1].Data)
           /\ \A i, j \in 1..Len(df) : i < j => df[i].idx < df[j].idx
           /\ Len(df) > 0 =>
                 /\ stored.some
                 /\ Len(stored.val) = Len(df)
                 /\ \A i \in 1..Len(df) :
                       /\ stored.val[i].idx = df[i].idx
                       /\ ParseDateText(stored.val[i].Data) = df[i].Data

\* An uploaded spreadsheet of two rows lost its first row to a date that
\* cannot be parsed and kept its second.
C4_Witness ==
    /\ LoadedSpreadsheet
    /\ loaded.via = "parse_contents"
    /\ Len(loaded.file.rows) = 2
    /\ ParseablePositions(loaded.file.rows) = {2}
    /\ stored.some
    /\ Len(stored.val) = 1

\* A spreadsheet that was parsed and has no record left.
ParsedWithNoRecords(file) ==
    /\ ~CannotBeLoaded(file)
    /\ ParseablePositions(file.rows) = {}

\* What the layout puts in the store for the file at INITIAL_DATA_PATH.
StoreAtPageLoad(path) ==
    IF ~IsEmpty(load_data(path)) THEN Some(to_json(load_data(path))) ELSE NoneStore

\* C5: what the UI layer is handed tells a file that could not be parsed
\* (absent, unreadable, unsupported name, missing column) from a file that was
\* parsed and has no record left: the store of the initial load, the status of
\* an upload.
C5_FailureToldFromNoRecords ==
    \A file \in Files :
        ParsedWithNoRecords(file) =>
            /\ (/\ loaded.via = "load_data"
                /\ (\/ ~loaded.exists
                    \/ Unreadable(loaded.file)
                    \/ LacksRequiredColumn(loaded.file)))
                   => stored # StoreAtPageLoad([exists |-> TRUE, file |-> file])
            /\ (loaded.via = "parse_contents" /\ CannotBeLoaded(loaded.file))
                   => status # update_output(file).status

\* The distinct values of a column of the stored Record Set, and its first and
\* last day.
StoredValues(col) == {FrameCell(j[col]) : j \in Range(stored.val)}
StoredDays == {DateOf(ParseDateText(j.Data)) : j \in Range(stored.val)}
OptionsOfStore ==
    /\ stored.some =>
          /\ options.materia = StoredValues("Materia")
          /\ options.oficio = StoredValues("Oficio")
          /\ options.usuario = StoredValues("Usuario")
          /\ options.min_date \in StoredDays
          /\ options.max_date \in StoredDays
          /\ \A d \in StoredDays :
                DayNum(options.min_date) <= DayNum(d) /\ DayNum(d) <= DayNum(options.max_date)
    /\ ~stored.some => options = NoOptions

\* C10: after every upload the store holds exactly the Record Set of the most
\* recent successful upload (the store is replaced by it, or kept when the
\* upload fails), and the options of the three dropdowns and the first and
\* last selectable day are those of the Record Set now stored.
C10_StoreAndOptionsCurrent ==
    [][loaded'.via = "parse_contents" =>
          /\ IF loaded'.frame.some /\ ~IsEmpty(loaded'.frame.val)
             THEN stored' = Some(to_json(loaded'.frame.val))
             ELSE stored' = stored
          /\ OptionsOfStore']_vars

Counts(fig) == [i \in 1..Len(fig.data) |-> fig.data[i].n]

\* C3: for a view that is not empty, the counts by Matéria, the counts by
\* Ofício and the monthly series each sum to the total shown as Total PAJs.
C3_CountsSumToTotal ==
    dashboard.total.card =>
        /\ SeqSum(Counts(dashboard.fig_materia)) = dashboard.total.n
        /\ SeqSum(Counts(dashboard.fig_oficio)) = dashboard.total.n
        /\ SeqSum(Counts(dashboard.fig_evolucao)) = dashboard.total.n

\* The calendar day of a record and of a picked bound of the range.
RecordDay(r) == DayNum(DateOf(r.Data))
BoundDay(text) == DayNum(DateOf(ParseDateText(text.val)))

\* r satisfies every active constraint of the Filter Selection.
Satisfies(r) ==
    /\ (materias.some /\ materias.val # {}) => r.Materia \in materias.val
    /\ (oficios.some /\ oficios.val # {}) => r.Oficio \in oficios.val
    /\ (usuarios.some /\ usuarios.val # {}) => r.Usuario \in usuarios.val
    /\ start_date.some => BoundDay(start_date) <= RecordDay(r)
    /\ end_date.some => RecordDay(r) <= BoundDay(end_date)

\* C2: for a stored Record Set, the View of update_dashboard holds exactly the
\* records that satisfy every active constraint (membership in the selected
\* values, start <= date <= end with both days included), in their order; an
\* unset or empty constraint removes nothing.
C2_ViewIsExact ==
    stored.some => dashboard.dff = SelectSeq(read_json(stored.val), Satisfies)

\* C6: an export attempt, whatever it returns and whatever fails under it,
\* raises nothing out of generate_pdf and leaves the store, the three
\* selections, the date range and the top-N choice as they were; rendering
\* the dashboard after it gives the output shown before it.
C6_ExportLeavesSessionAlone ==
    [][download'.clicked =>
          /\ ~download'.raised
          /\ stored' = stored
          /\ materias' = materias /\ oficios' = oficios /\ usuarios' = usuarios
          /\ start_date' = start_date /\ end_date' = end_date
          /\ top_n' = top_n
          /\ update_dashboard(stored', materias', oficios', usuarios',
                              start_date', end_date', top_n') = dashboard]_vars

\* An export of a stored Record Set failed in write_pdf and returned nothing.
C6_Witness ==
    /\ download.clicked
    /\ stored.some
    /\ ~download.env.pdf_ok
    /\ ~download.some
    /\ dashboard.total.card

\* C7: the document an export returns was made from the View the dashboard
\* shows and carries the dashboard's aggregates: total, counts by Matéria and
\* by Ofício, top-N user counts, monthly series and top-10 table.
C7_ExportMatchesDashboard ==
    download.some =>
        /\ download.dff = dashboard.dff
        /\ download.html.bundle.total_pajs = dashboard.total.n
        /\ download.html.bundle.materia_counts = dashboard.fig_materia.data
        /\ download.html.bundle.oficio_counts = dashboard.fig_oficio.data
        /\ download.html.bundle.user_counts = dashboard.fig_usuarios.data
        /\ download.html.bundle.evolucao = dashboard.fig_evolucao.data
        /\ download.html.bundle.top10_users_stats = dashboard.tabela.rows
        /\ dashboard.total.card => download.html.top_n = dashboard.fig_usuarios.top

\* A document was exported for a View narrowed by the end of the range to a
\* record dated at midnight of that day.
C7_Witness ==
    /\ download.some
    /\ end_date.some
    /\ dashboard.total.card
    /\ Len(dashboard.dff) < Len(stored.val)
    /\ \E i \in 1..Len(dashboard.dff) :
          TsNum(dashboard.dff[i].Data) = TsNum(ParseDateText(end_date.val))

\* The export button was clicked with a Record Set stored and an empty View.
ClickedOnEmptyView == download.clicked /\ stored.some /\ IsEmpty(dashboard.dff)

NoticeDocument ==
    /\ download.some
    /\ download.html.notice = "Nenhum dado corresponde aos filtros selecionados."
    /\ ~download.html.materia.img /\ ~download.html.oficio.img
    /\ ~download.html.usuarios.img /\ ~download.html.evolucao.img
    /\ ~download.html.has_table

\* C8 as stated: a click with an empty View always returns a document with the
\* notice and neither charts nor table.
C8_EmptyViewAlwaysExports == ClickedOnEmptyView => NoticeDocument

\* C8: a click with an empty View returns a document with the notice and
\* neither charts nor table, unless write_pdf fails, and then it returns
\* nothing.
C8_EmptyViewExportsUnlessPdfFails ==
    ClickedOnEmptyView => IF download.env.pdf_ok THEN NoticeDocument ELSE ~download.some

\* The notice document was returned although the logo cannot be opened.
C8_Witness == ClickedOnEmptyView /\ NoticeDocument /\ ~download.env.logo_ok

NoRecordSetOutput ==
    Placeholder("Sem dados para exibir", "Nenhum dado disponível para a tabela.")
EmptyViewOutput ==
    Placeholder("Nenhum dado corresponde aos filtros", "Nenhum dado corresponde aos filtros.")
IsPlaceholder(out) ==
    /\ out.total.n = 0
    /\ \A fig \in {out.fig_materia, out.fig_oficio, out.fig_usuarios, out.fig_evolucao} :
          fig.annotation # "" /\ fig.data = <<>>
    /\ out.tabela.text # "" /\ out.tabela.rows = <<>>

\* C9: with no Record Set, and with a Record Set none of whose records
\* satisfies the Filter Selection, the dashboard shows a total of 0 and a
\* placeholder for each chart and for the table, and what it shows in the
\* second case differs from what it shows in the first.
C9_ZeroDataPlaceholders ==
    /\ ~stored.some => dashboard = NoRecordSetOutput /\ IsPlaceholder(dashboard)
    /\ (stored.some /\ \A j \in Range(read_json(stored.val)) : ~Satisfies(j)) =>
          /\ dashboard = EmptyViewOutput
          /\ IsPlaceholder(dashboard)
          /\ dashboard # NoRecordSetOutput

\* The selection names a user that the Record Set now stored does not have.
C9_Witness ==
    /\ stored.some
    /\ usuarios.some /\ usuarios.val # {}
    /\ \A j \in Range(stored.val) : j.Usuario \notin usuarios.val
    /\ dashboard = EmptyViewOutput

\* The users of the View and the number of its records each of them has.
ViewUsers == {r.Usuario : r \in Range(dashboard.dff)} \ {NaN}
ViewCount(u) == Cardinality({i \in 1..Len(dashboard.dff) : dashboard.dff[i].Usuario = u})
Least(a, b) == IF a < b THEN a ELSE b

\* ranking lists `size` users of the View, none twice, each with its number
\* of records, in descending order of count, and no user left out has more
\* records than a listed one.
IsRanking(ranking, size) ==
    /\ Len(ranking) = size
    /\ \A i \in 1..Len(ranking) :
          /\ ranking[i].key \in ViewUsers
          /\ ranking[i].n = ViewCount(ranking[i].key)
    /\ \A i, j \in 1..Len(ranking) :
          /\ ranking[i].key = ranking[j].key => i = j
          /\ i < j => ranking[i].n >= ranking[j].n
    /\ \A u \in ViewUsers \ {ranking[i].key : i \in 1..Len(ranking)} :
          \A i \in 1..Len(ranking) : ranking[i].n >= ViewCount(u)

\* C11: for a view that is not empty the top-10 table lists min(10, number of
\* users) users with their counts, largest first, no unlisted user with more
\* records than a listed one; it is the same table under every top-N choice,
\* and the table of an exported report is that table.
C11_Top10TableIgnoresTopN ==
    dashboard.total.card =>
        /\ IsRanking(dashboard.tabela.rows, Least(10, Cardinality(ViewUsers)))
        /\ \A n \in TopNChoices :
              update_dashboard(stored, materias, oficios, usuarios,
                               start_date, end_date, n).tabela = dashboard.tabela
        /\ (download.some /\ download.html.has_table) =>
              download.html.tabela = dashboard.tabela.rows

\* The view has more than ten users, the chart is not the top 10, and the
\* table leaves out a user with as many records as its last row.
C11_Witness ==
    /\ dashboard.total.card
    /\ Cardinality(ViewUsers) > 10
    /\ top_n # 10
    /\ Len(dashboard.fig_usuarios.data) > 10
    /\ Len(dashboard.tabela.rows) = 10
    /\ \E u \in ViewUsers :
          /\ \A i \in 1..10 : dashboard.tabela.rows[i].key # u
          /\ ViewCount(u) = dashboard.tabela.rows[10].n

\* C12: for a view that is not empty the chart of the top N users shows
\* min(N, number of users) users, each with the number of the View's records
\* it has, largest first, no user left out with more records than one shown;
\* which users and in which order follows from the View and N alone, and the
\* exported report computes the same ranking.
C12_TopNUsers ==
    dashboard.total.card =>
        /\ IsRanking(dashboard.fig_usuarios.data, Least(top_n, Cardinality(ViewUsers)))
        /\ dashboard.fig_usuarios.top = top_n
        /\ dashboard.fig_usuarios.data =
              nlargest(value_counts(Column(dashboard.dff, "Usuario")), top_n)
        /\ download.some => download.html.bundle.user_counts = dashboard.fig_usuarios.data

\* The chart is the top 10 of more than ten users and leaves out a user with
\* as many records as the last one it shows, and a report was exported.
C12_Witness ==
    /\ dashboard.total.card
    /\ top_n = 10
    /\ Cardinality(ViewUsers) > 10
    /\ Len(dashboard.fig_usuarios.data) = 10
    /\ dashboard.fig_usuarios.data[1].n > dashboard.fig_usuarios.data[10].n
    /\ \E u \in ViewUsers :
          /\ \A i \in 1..10 : dashboard.fig_usuarios.data[i].key # u
          /\ ViewCount(u) = dashboard.fig_usuarios.data[10].n
    /\ download.some

\* The year-month keys of the View, the number of its records with a key, and
\* the (year, month) pair a key stands for, as a number.
ViewMonths == {r.AnoMes : r \in Range(dashboard.dff)}
MonthCount(key) == Cardinality({i \in 1..Len(dashboard.dff) : dashboard.dff[i].AnoMes = key})
MonthPair(key) ==
    LET r == CHOOSE x \in Range(dashboard.dff) : x.AnoMes = key
    IN r.Ano * 12 + r.Mes

\* The monthly series has one entry for each key of the View, with the
\* number of its records, keys ascending as text and as (year, month) pairs.
SeriesOfView ==
    LET series == dashboard.fig_evolucao.data
    IN /\ Len(series) = Cardinality(ViewMonths)
       /\ \A i \in 1..Len(series) :
             /\ series[i].key \in ViewMonths
             /\ series[i].n = MonthCount(series[i].key)
       /\ \A i, j \in 1..Len(series) :
             i < j => /\ TextLess(series[i].key, series[j].key)
                      /\ MonthPair(series[i].key) < MonthPair(series[j].key)

\* The store holds three records dated 2024-01, 2024-02 and 2024-02, and the
\* only filter is the range from 2024-02-01 to 2024-02-28.
ScenarioFebruary ==
    /\ stored.some
    /\ [i \in 1..Len(stored.val) |-> stored.val[i].AnoMes]
          = <<PeriodText(<<2024, 1>>), PeriodText(<<2024, 2>>), PeriodText(<<2024, 2>>)>>
    /\ ~TruthyList(materias) /\ ~TruthyList(oficios) /\ ~TruthyList(usuarios)
    /\ start_date = PickText(<<2024, 2, 1>>)
    /\ end_date = PickText(<<2024, 2, 28>>)

\* C13: for a view that is not empty the monthly series has one entry for each
\* year-month key of the View, with the number of its records, in ascending
\* order of the keys as text, which is their order as (year, month) pairs;
\* records dated 2024-01, 2024-02, 2024-02 under the range 2024-02-01 to
\* 2024-02-28 give a View of 2 records and the single entry 2024-02 with 2.
C13_MonthlySeries ==
    /\ dashboard.total.card => SeriesOfView
    /\ ScenarioFebruary =>
          /\ dashboard.total.n = 2
          /\ dashboard.fig_evolucao.data = <<[key |-> PeriodText(<<2024, 2>>), n |-> 2]>>

StoreNoneOrNonEmpty == stored.some => Len(stored.val) > 0

\* C14: the store is None or a Record Set with at least one record: it is
\* None after an initial load that yields no record, and an upload all of
\* whose rows are dropped for their dates is reported as a failed load and
\* leaves the store as it was.
C14_StoreNoneOrNonEmpty ==
    /\ [](/\ StoreNoneOrNonEmpty
          /\ (loaded.via = "load_data" /\ IsEmpty(loaded.frame.val)) => ~stored.some)
    /\ [][(loaded'.via = "parse_contents" /\ ParsedWithNoRecords(loaded'.file))
             => (stored' = stored /\ status' = FailureStatus)]_vars

\* A Record Set is stored and the last upload was a spreadsheet whose rows
\* were all dropped.
C14_Witness ==
    /\ stored.some
    /\ loaded.via = "parse_contents"
    /\ ParsedWithNoRecords(loaded.file)
    /\ Len(loaded.file.rows) > 0
    /\ status = FailureStatus
====
